---- MODULE Spec2Model ----
(***************************************************************************)
(* Model of the visit-ingestion service of PersonalScraper                 *)
(* (src/api/main.py, src/api/database.py).                                 *)
(*                                                                         *)
(* The relational store is PostgreSQL reached through SQLAlchemy sessions  *)
(* (autocommit=False, autoflush=False).  A session's flushed rows stay     *)
(* private to its transaction until db.commit(); get_db closes the session *)
(* when the handler leaves, which rolls back whatever was not committed.   *)
(* The vector store is the Chroma collection "web_history".                *)
(*                                                                         *)
(* Each worker executes record_visit in the steps of its code; workers are *)
(* separate server processes sharing the database, so their steps          *)
(* interleave (Spec).  SpecSeq runs the submissions one at a time, and     *)
(* SpecRead serves the read endpoints between them.  SpecEmpty adds        *)
(* submissions with empty content, SpecMeta submissions whose metadata     *)
(* carries cookies and recent history.                                     *)
(***************************************************************************)
EXTENDS Integers, Sequences, FiniteSets, TLC

\* ------------------------------------------------------------- bounds
MaxVersion == 2
MaxSubmissions == 3

Workers == {"w1", "w2"}
URLs == {"a", "b"}
\* content hashes of concurrent submissions, and of submissions made in turn
Hashes == {"h1", "h2", "h3"}
SeqHashes == {"h1", "h2"}
\* proposed versions: one below the counter's initial 0, the others above it
Versions == {-1} \cup 1..MaxVersion

VARIABLES
    websites,      \* committed rows of table websites: url -> latest_version
    visits,        \* committed rows of table visits
    vectors,       \* records of the Chroma collection
    cookies,       \* committed rows of table cookies
    website_cookie,    \* committed rows of the association table: <<url, cookie id>>
    browsing_history,  \* committed rows of table browsing_history
    session,       \* per worker: registry rows the session holds, not yet flushed
    pc,            \* per worker: position in record_visit
    visit_data,    \* per worker: the request body being handled
    website,       \* per worker: the session's Website object
    new_visit,     \* per worker: the session's flushed, uncommitted Visit (or NoVisit)
    outcome,       \* per worker: how the handler left ("ok" or the failing step)
    visit_id,      \* history: id of the Visit this submission flushed (0: none)
    pre,           \* history: committed state seen when the request arrived
    proposed,      \* history: visit id -> version its submission proposed
    site_inserts,  \* history: url -> number of committed INSERTs into websites
    processed,     \* history: registry entries of the committed submissions
    seenUrls,      \* history: urls ever submitted
    nsub,          \* history: number of submissions received
    resp           \* body of the answer of a read endpoint

registry == <<cookies, website_cookie, browsing_history>>

vars == <<websites, visits, vectors, registry, session, pc, visit_data, website,
          new_visit, outcome, visit_id, pre, proposed, site_inserts, processed,
          seenUrls, nsub, resp>>

NoVisit == [id |-> 0]
NoData == [url |-> "", contentHash |-> "", version |-> 0, content |-> "",
           cookies |-> <<>>, recentHistory |-> <<>>]
NoSession == [cookie_rows |-> {}, links |-> {}, history_rows |-> {},
              history_counts |-> <<>>, used |-> {}]
\* a page with content
Page == "<p>page</p>"

\* metadata.cookies: entries with name and domain
SessionCookie == [name |-> "sid", domain |-> "a.test"]
OtherCookie == [name |-> "sid", domain |-> "b.test"]
CookieLists == {<<>>, <<SessionCookie>>, <<SessionCookie, SessionCookie>>,
                <<SessionCookie, OtherCookie>>}

\* metadata.recentHistory: entries with a url
HistoryUrls == {"x", "y"}
HistoryLists == {<<>>, <<"x">>, <<"x", "x">>, <<"x", "y">>}
NoSite == [found |-> FALSE, inserted |-> FALSE, latest_version |-> 0]
NoPre == [latest_version |-> 0, duplicate |-> FALSE]
NoResp == [kind |-> "none"]

\* ------------------------------------------------------------- helpers
RECURSIVE MaxOf(_)
MaxOf(S) ==
    IF S = {} THEN 0
    ELSE LET x == CHOOSE y \in S : TRUE
             m == MaxOf(S \ {x})
         IN IF S = {x} THEN x ELSE IF x >= m THEN x ELSE m

\* rows of table visits that belong to the Website of url u
VisitsOf(u) == {v \in visits : v.url = u}

Occurrences(s, x) == Cardinality({i \in DOMAIN s : s[i] = x})

\* variant: the counter is overwritten with the proposed version
NewLatest_Overwrite(latest, version) == version

\* max(website.latest_version, visit_data.version)
NewLatest(latest, version) == IF latest >= version THEN latest ELSE version

\* variant: the Visit stores the larger of the counter and the proposed version
VisitVersion_Max(latest, version) == IF latest >= version THEN latest ELSE version

\* Visit(version=visit_data.version, ...)
VisitVersion(latest, version) == version

\* variant: the Website query has no filter and takes the first row
OwnerUrl_First(p) == CHOOSE u \in URLs : TRUE

\* db.query(Website).filter(Website.url == visit_data.url); website_id=website.id:
\* the Website row the session's Visit and counter update belong to
OwnerUrl(p) == visit_data[p].url

\* id = Column(UUID, primary_key=True, default=uuid.uuid4): a key no row, and
\* no submission still being handled, holds.
UsedIds == {v.id : v \in visits} \cup {visit_id[p] : p \in Workers}

FreshId == CHOOSE i \in 1..(Cardinality(UsedIds) + 1) :
               /\ i \notin UsedIds
               /\ \A j \in 1..(i - 1) : j \in UsedIds

\* ids=[str(new_visit.id)]
VectorId(visit) == visit.id

\* variant: no answer of 0 for a URL without a Website row
get_latest_version_NoDefault(url) ==
    IF url \in DOMAIN websites THEN websites[url] ELSE -1

\* GET /latest_version (lines 160-165)
get_latest_version(url) ==
    IF url \in DOMAIN websites THEN websites[url] ELSE 0

AllIdle == \A p \in Workers : pc[p] = "idle"

Init ==
    /\ websites = <<>>
    /\ visits = {}
    /\ vectors = {}
    /\ cookies = {}
    /\ website_cookie = {}
    /\ browsing_history = {}
    /\ session = [p \in Workers |-> NoSession]
    /\ site_inserts = [u \in URLs |-> 0]
    /\ processed = [history |-> [h \in HistoryUrls |-> 0], cookies |-> {}]
    /\ pc = [p \in Workers |-> "idle"]
    /\ visit_data = [p \in Workers |-> NoData]
    /\ website = [p \in Workers |-> NoSite]
    /\ new_visit = [p \in Workers |-> NoVisit]
    /\ outcome = [p \in Workers |-> "none"]
    /\ visit_id = [p \in Workers |-> 0]
    /\ pre = [p \in Workers |-> NoPre]
    /\ proposed = <<>>
    /\ seenUrls = {}
    /\ nsub = 0
    /\ resp = NoResp

\* ------------------------------------------------------------- record_visit
\* The request arrives and the handler queries the Website row (line 54).
Receive(p, url, hash, version, content, cookie_list, history_list) ==
    /\ pc[p] = "idle"
    /\ nsub' = nsub + 1
    /\ visit_data' = [visit_data EXCEPT
           ![p] = [url |-> url, contentHash |-> hash, version |-> version,
                   content |-> content, cookies |-> cookie_list,
                   recentHistory |-> history_list]]
    /\ website' = [website EXCEPT
           ![p] = [found |-> url \in DOMAIN websites,
                   inserted |-> FALSE,
                   latest_version |-> IF url \in DOMAIN websites THEN websites[url] ELSE 0]]
    /\ pre' = [pre EXCEPT
           ![p] = [latest_version |-> get_latest_version(url),
                   duplicate |-> \E v \in VisitsOf(url) : v.content_hash = hash]]
    /\ seenUrls' = seenUrls \cup {url}
    /\ new_visit' = [new_visit EXCEPT ![p] = NoVisit]
    /\ outcome' = [outcome EXCEPT ![p] = "none"]
    /\ pc' = [pc EXCEPT ![p] = IF url \in DOMAIN websites THEN "clean" ELSE "insert"]
    /\ visit_id' = [visit_id EXCEPT ![p] = 0]
    /\ resp' = NoResp
    /\ UNCHANGED <<websites, visits, vectors, registry, session, site_inserts, processed, proposed>>

\* A submission of a page with content and no registry metadata.
Begin(p, url, hash, version) == Receive(p, url, hash, version, Page, <<>>, <<>>)

\* The session is closed without a commit: its flushed rows are rolled back.
Abort(p, why) ==
    /\ pc' = [pc EXCEPT ![p] = "done"]
    /\ outcome' = [outcome EXCEPT ![p] = why]
    /\ website' = [website EXCEPT ![p].inserted = FALSE]
    /\ new_visit' = [new_visit EXCEPT ![p] = NoVisit]
    /\ session' = [session EXCEPT ![p] = NoSession]
    /\ UNCHANGED <<websites, visits, vectors, registry, site_inserts, processed, visit_id,
                   visit_data, pre, proposed, seenUrls, nsub, resp>>

\* variant: the INSERT does not wait for an uncommitted row with the same url
InsertBlocked_Never(p) == FALSE

\* Another open transaction holds an uncommitted websites row with this url:
\* the unique index makes the INSERT wait for that transaction to end.
InsertBlocked(p) ==
    \E q \in Workers \ {p} :
        /\ website[q].inserted
        /\ visit_data[q].url = visit_data[p].url

\* Website(url=..., latest_version=0); db.add; db.flush (lines 55-58).
InsertWebsite(p) ==
    /\ pc[p] = "insert"
    /\ ~InsertBlocked(p)
    /\ visit_data[p].url \notin DOMAIN websites
    /\ website' = [website EXCEPT
           ![p] = [found |-> FALSE, inserted |-> TRUE, latest_version |-> 0]]
    /\ pc' = [pc EXCEPT ![p] = "clean"]
    /\ UNCHANGED <<websites, visits, vectors, registry, session, site_inserts, processed, visit_id, visit_data, new_visit, outcome,
                   pre, proposed, seenUrls, nsub, resp>>

\* The row was committed by another worker after this one's query: the
\* unique constraint on websites.url rejects the INSERT.
InsertWebsiteConflict(p) ==
    /\ pc[p] = "insert"
    /\ ~InsertBlocked(p)
    /\ visit_data[p].url \in DOMAIN websites
    /\ Abort(p, "conflict")

\* clean_content(visit_data.content) (line 61).
CleanContent(p) ==
    /\ pc[p] = "clean"
    /\ pc' = [pc EXCEPT ![p] = "visit"]
    /\ UNCHANGED <<websites, visits, vectors, registry, session, site_inserts, processed, visit_id, visit_data, website, new_visit,
                   outcome, pre, proposed, seenUrls, nsub, resp>>

\* markdownify raises on the content (it returns "" for empty content).
CleanContentFails(p) ==
    /\ pc[p] = "clean"
    /\ visit_data[p].content # ""
    /\ Abort(p, "clean_failed")

\* Visit(...); db.add; db.flush (lines 64-75).
AddVisit(p) ==
    /\ pc[p] = "visit"
    /\ new_visit' = [new_visit EXCEPT
           ![p] = [id |-> FreshId,
                   url |-> OwnerUrl(p),
                   version |-> VisitVersion(website[p].latest_version,
                                            visit_data[p].version),
                   content_hash |-> visit_data[p].contentHash]]
    /\ visit_id' = [visit_id EXCEPT ![p] = FreshId]
    /\ pc' = [pc EXCEPT ![p] = "enrich"]
    /\ UNCHANGED <<websites, visits, vectors, registry, session, site_inserts, processed, visit_data, website, outcome, pre,
                   proposed, seenUrls, nsub, resp>>

\* The smallest key not in used (a fresh uuid4).
SmallestUnused(used) ==
    CHOOSE i \in 1..(Cardinality(used) + 1) :
        i \notin used /\ \A j \in 1..(i - 1) : j \in used

\* One pass of the cookie loop (lines 88-104).  The query reads the committed
\* rows only: the session does not autoflush, so a Cookie added earlier in the
\* loop is not found.  first() takes any matching row.
CookieStep(S, url, c) ==
    LET matches == {r \in cookies : r.name = c.name /\ r.domain = c.domain}
        used == {r.id : r \in cookies} \cup S.used
        new == [id |-> SmallestUnused(used), name |-> c.name, domain |-> c.domain]
    IN IF matches = {}
       THEN {[S EXCEPT !.cookie_rows = @ \cup {new},
                       !.links = @ \cup {<<url, new.id>>},
                       !.used = @ \cup {new.id}]}
       ELSE {IF <<url, r.id>> \in website_cookie \cup S.links
             THEN S
             ELSE [S EXCEPT !.links = @ \cup {<<url, r.id>>}] : r \in matches}

RECURSIVE CookieLoop(_, _, _)
CookieLoop(S, url, list) ==
    IF list = <<>> THEN {S}
    ELSE UNION {CookieLoop(T, url, Tail(list)) : T \in CookieStep(S, url, Head(list))}

\* One pass of the browsing-history loop (lines 117-135): an existing row is
\* incremented on the session's object, an absent one is added with count 1.
HistoryStep(S, h) ==
    LET matches == {r \in browsing_history : r.url = h}
        used == {r.id : r \in browsing_history} \cup S.used
        new == [id |-> SmallestUnused(used), url |-> h, visit_count |-> 1]
        count(r) == IF r.id \in DOMAIN S.history_counts
                    THEN S.history_counts[r.id] ELSE r.visit_count
    IN IF matches = {}
       THEN {[S EXCEPT !.history_rows = @ \cup {new}, !.used = @ \cup {new.id}]}
       ELSE {[S EXCEPT !.history_counts =
                  [i \in DOMAIN S.history_counts \cup {r.id} |->
                      IF i = r.id THEN count(r) + 1 ELSE S.history_counts[i]]] :
             r \in matches}

RECURSIVE HistoryLoop(_, _)
HistoryLoop(S, list) ==
    IF list = <<>> THEN {S}
    ELSE UNION {HistoryLoop(T, Tail(list)) : T \in HistoryStep(S, Head(list))}

\* keys held by the sessions of the other workers
HeldKeys(p) ==
    UNION {{r.id : r \in session[q].cookie_rows \cup session[q].history_rows} :
           q \in Workers \ {p}}

\* Geolocation, cookies, top sites, browsing history (lines 77-135).  The
\* cookie registry and the browsing history are kept; top sites follow the
\* cookie loop on their own table, and the geolocation row hangs off the Visit.
Enrich(p) ==
    /\ pc[p] = "enrich"
    /\ \E S1 \in CookieLoop([NoSession EXCEPT !.used = HeldKeys(p)], OwnerUrl(p),
                             visit_data[p].cookies) :
         \E S2 \in HistoryLoop([S1 EXCEPT !.used = HeldKeys(p)],
                                visit_data[p].recentHistory) :
            session' = [session EXCEPT ![p] = [S2 EXCEPT !.used = {}]]
    /\ pc' = [pc EXCEPT ![p] = "commit"]
    /\ UNCHANGED <<websites, visits, vectors, registry, site_inserts, processed, visit_id,
                   visit_data, website, new_visit, outcome, pre, proposed, seenUrls,
                   nsub, resp>>

\* A metadata entry lacks a key the loops index (cookie_data["path"], ...).
EnrichFails(p) ==
    /\ pc[p] = "enrich"
    /\ Abort(p, "enrich_failed")

\* website.latest_version = max(...); db.commit() (lines 138-140).  The unit
\* of work writes latest_version only when the attribute's value changed,
\* and writes the value computed from the session's own copy of the row.
Commit(p) ==
    /\ pc[p] = "commit"
    /\ LET url == OwnerUrl(p)
           new == NewLatest(website[p].latest_version, visit_data[p].version)
       IN /\ websites' =
                 IF website[p].inserted \/ new # website[p].latest_version
                 THEN [u \in DOMAIN websites \cup {url} |->
                          IF u = url THEN new ELSE websites[u]]
                 ELSE websites
          /\ website' = [website EXCEPT
                 ![p] = [found |-> TRUE, inserted |-> FALSE, latest_version |-> new]]
    /\ visits' = visits \cup {new_visit[p]}
    /\ cookies' = cookies \cup session[p].cookie_rows
    /\ website_cookie' = website_cookie \cup session[p].links
    /\ browsing_history' =
           {IF r.id \in DOMAIN session[p].history_counts
            THEN [r EXCEPT !.visit_count = session[p].history_counts[r.id]]
            ELSE r : r \in browsing_history} \cup session[p].history_rows
    /\ session' = [session EXCEPT ![p] = NoSession]
    /\ site_inserts' = IF website[p].inserted
                       THEN [site_inserts EXCEPT ![OwnerUrl(p)] = @ + 1]
                       ELSE site_inserts
    /\ processed' =
           [history |-> [h \in HistoryUrls |->
                            processed.history[h]
                                + Occurrences(visit_data[p].recentHistory, h)],
            cookies |-> processed.cookies \cup
                            {<<OwnerUrl(p), visit_data[p].cookies[i]>> :
                                i \in DOMAIN visit_data[p].cookies}]
    /\ proposed' = [i \in DOMAIN proposed \cup {new_visit[p].id} |->
                       IF i = new_visit[p].id THEN visit_data[p].version ELSE proposed[i]]
    /\ pc' = [pc EXCEPT ![p] = "vector"]
    /\ UNCHANGED <<vectors, visit_id, visit_data, new_visit, outcome, pre, seenUrls,
                   nsub, resp>>

\* variant: collection.add is called ahead of db.commit()
VectorAdd_BeforeCommit(p) ==
    /\ pc[p] = "commit"
    /\ vectors' = vectors \cup
           {[id |-> VectorId(new_visit[p]),
             url |-> visit_data[p].url,
             version |-> visit_data[p].version]}
    /\ UNCHANGED <<websites, visits, registry, session, site_inserts, processed, pc,
                   visit_id, visit_data, website, new_visit, outcome, pre, proposed,
                   seenUrls, nsub, resp>>

\* collection.add(documents, metadatas, ids) (lines 142-153).
VectorAdd(p) ==
    /\ pc[p] = "vector"
    /\ vectors' = vectors \cup
           {[id |-> VectorId(new_visit[p]),
             url |-> visit_data[p].url,
             version |-> visit_data[p].version]}
    /\ pc' = [pc EXCEPT ![p] = "done"]
    /\ outcome' = [outcome EXCEPT ![p] = "ok"]
    /\ UNCHANGED <<websites, visits, registry, session, site_inserts, processed, visit_id, visit_data, website, new_visit, pre,
                   proposed, seenUrls, nsub, resp>>

\* The Chroma server is unreachable or rejects the record: the handler raises
\* after the relational commit.
VectorAddFails(p) ==
    /\ pc[p] = "vector"
    /\ pc' = [pc EXCEPT ![p] = "done"]
    /\ outcome' = [outcome EXCEPT ![p] = "store_failed"]
    /\ UNCHANGED <<websites, visits, vectors, registry, session, site_inserts, processed, visit_id, visit_data, website, new_visit,
                   pre, proposed, seenUrls, nsub, resp>>

\* The response is sent and get_db closes the session (lines 23-28).
Return(p) ==
    /\ pc[p] = "done"
    /\ pc' = [pc EXCEPT ![p] = "idle"]
    /\ visit_data' = [visit_data EXCEPT ![p] = NoData]
    /\ website' = [website EXCEPT ![p] = NoSite]
    /\ new_visit' = [new_visit EXCEPT ![p] = NoVisit]
    /\ outcome' = [outcome EXCEPT ![p] = "none"]
    /\ pre' = [pre EXCEPT ![p] = NoPre]
    /\ visit_id' = [visit_id EXCEPT ![p] = 0]
    /\ UNCHANGED <<websites, visits, vectors, registry, session, site_inserts, processed, proposed, seenUrls, nsub, resp>>

\* ------------------------------------------------------------- read endpoints
\* The orders in which a query without ORDER BY may return the rows of S.
Orderings(S) ==
    {f \in [1..Cardinality(S) -> S] : \A i, j \in 1..Cardinality(S) : f[i] = f[j] => i = j}

\* resp holds the answer to the one read request served since the last
\* submission; a read leaves the stores as they are, so every answer a later
\* read could give is the answer of a first read in the same stored state.

\* GET /visits (lines 168-186): the handler takes url alone; any other query
\* parameter of the request (start, end) is not read.
GetVisits(url, start, end) ==
    /\ AllIdle
    /\ resp = NoResp
    /\ IF url \in DOMAIN websites
       THEN \E f \in Orderings(VisitsOf(url)) :
               resp' = [kind |-> "visits", url |-> url, start |-> start, end |-> end,
                        versions |-> [i \in DOMAIN f |-> f[i].version]]
       ELSE resp' = [kind |-> "message", url |-> url]
    /\ UNCHANGED <<websites, visits, vectors, registry, session, site_inserts, processed, visit_id, pc, visit_data, website,
                   new_visit, outcome, pre, proposed, seenUrls, nsub>>

\* variant: the lookup creates the Website row it does not find
GetLatestVersion_Creating(url) ==
    /\ AllIdle
    /\ resp = NoResp
    /\ websites' = [u \in DOMAIN websites \cup {url} |-> get_latest_version(u)]
    /\ resp' = [kind |-> "latest_version", url |-> url,
                latest_version |-> get_latest_version(url)]
    /\ UNCHANGED <<visits, vectors, registry, session, site_inserts, processed,
                   visit_id, pc, visit_data, website, new_visit, outcome, pre,
                   proposed, seenUrls, nsub>>

\* GET /cookies (lines 246-266): the Cookies linked to the Website of url.
GetCookies(url) ==
    /\ AllIdle
    /\ resp = NoResp
    /\ IF url \in DOMAIN websites
       THEN resp' = [kind |-> "cookies", url |-> url,
                     cookies |-> {r \in cookies : <<url, r.id>> \in website_cookie}]
       ELSE resp' = [kind |-> "message", url |-> url]
    /\ UNCHANGED <<websites, visits, vectors, registry, session, site_inserts,
                   processed, visit_id, pc, visit_data, website, new_visit, outcome,
                   pre, proposed, seenUrls, nsub>>

\* GET /latest_version (lines 160-165).
GetLatestVersion(url) ==
    /\ AllIdle
    /\ resp = NoResp
    /\ resp' = [kind |-> "latest_version", url |-> url,
                latest_version |-> get_latest_version(url)]
    /\ UNCHANGED <<websites, visits, vectors, registry, session, site_inserts, processed, visit_id, pc, visit_data, website,
                   new_visit, outcome, pre, proposed, seenUrls, nsub>>

\* ------------------------------------------------------------- specifications
Step(p) ==
    \/ InsertWebsite(p)
    \/ CleanContent(p)
    \/ CleanContentFails(p)
    \/ AddVisit(p)
    \/ Enrich(p)
    \/ EnrichFails(p)
    \/ Commit(p)
    \/ VectorAdd(p)
    \/ VectorAddFails(p)
    \/ Return(p)

\* Workers handle submissions concurrently.
\* Idle workers are alike: the request goes to one of them.
BeginConc(p, u, h, v) ==
    /\ nsub < MaxSubmissions
    /\ \E q \in Workers : pc[q] = "idle"
    /\ p = CHOOSE q \in Workers : pc[q] = "idle"
    /\ Begin(p, u, h, v)

Next ==
    \/ \E p \in Workers, u \in URLs, h \in Hashes, v \in Versions :
          BeginConc(p, u, h, v)
    \/ \E p \in Workers : Step(p)
    \/ \E p \in Workers : InsertWebsiteConflict(p)

Spec == Init /\ [][Next]_vars

\* One request at a time: a single server process, whose handler (an async
\* function that never awaits) runs each submission to its end before the next.
Server == CHOOSE p \in Workers : TRUE

BeginSeq(u, h, v) == AllIdle /\ nsub < MaxSubmissions /\ Begin(Server, u, h, v)

NextSeq ==
    \/ \E u \in URLs, h \in SeqHashes, v \in Versions : BeginSeq(u, h, v)
    \/ Step(Server)

SpecSeq == Init /\ [][NextSeq]_vars

\* One request at a time, reads included.
NextRead ==
    \/ NextSeq
    \/ \E u \in URLs, s \in Versions, e \in Versions : GetVisits(u, s, e)
    \/ \E u \in URLs : GetLatestVersion(u)
    \/ \E u \in URLs : GetCookies(u)

SpecRead == Init /\ [][NextRead]_vars

\* One request at a time, submissions with empty content included: content is
\* declared str (line 38) and nothing in the handler looks at its length.
BeginEmpty(u, h, v) ==
    AllIdle /\ nsub < MaxSubmissions /\ Receive(Server, u, h, v, "", <<>>, <<>>)

NextEmpty ==
    \/ NextSeq
    \/ \E u \in URLs, h \in SeqHashes, v \in Versions : BeginEmpty(u, h, v)

SpecEmpty == Init /\ [][NextEmpty]_vars

\* One request at a time, each with cookies and recent history in its metadata.
BeginMeta(u, cookie_list, history_list) ==
    /\ AllIdle
    /\ nsub < MaxSubmissions
    /\ Receive(Server, u, "h1", 1, Page, cookie_list, history_list)

NextMeta ==
    \/ \E u \in URLs, cl \in CookieLists, hl \in HistoryLists : BeginMeta(u, cl, hl)
    \/ Step(Server)

SpecMeta == Init /\ [][NextMeta]_vars

\* ------------------------------------------------------------- properties
InFlight(p) == pc[p] # "idle"
Finished(p) == pc[p] = "done"

\* the committed Visit row, and the vector record, this submission produced
OwnVisits(p) == {v \in visits : v.id = visit_id[p] /\ visit_id[p] # 0}
OwnVectors(p) == {r \in vectors : r.id = visit_id[p] /\ visit_id[p] # 0}

\* C1: submissions handled one at a time never lower a URL's latest_version:
\* in every step the value the service reports for each URL is at least the
\* value it reported before the step.
LatestVersionNeverDecreases ==
    [][\A u \in URLs : get_latest_version(u)' >= get_latest_version(u)]_vars

\* C1 witness: a submission that proposed a version above 0 and below the
\* URL's latest_version has been handled to its end.
LowerVersionSubmitted ==
    \E p \in Workers :
        /\ Finished(p)
        /\ outcome[p] = "ok"
        /\ visit_data[p].version > 0
        /\ visit_data[p].version < pre[p].latest_version
        /\ get_latest_version(visit_data[p].url) = pre[p].latest_version

\* C2: no two Visit rows of the same Website have the same content_hash.
NoTwoVisitsShareContentHash ==
    \A v1, v2 \in visits :
        (v1.url = v2.url /\ v1.content_hash = v2.content_hash) => v1.id = v2.id

\* C3: a submission whose (url, contentHash) already had a Visit when it
\* arrived leaves the URL's latest_version as it was and adds no vector record.
DuplicateChangesNothing ==
    \A p \in Workers :
        (Finished(p) /\ pre[p].duplicate) =>
            /\ get_latest_version(visit_data[p].url) = pre[p].latest_version
            /\ OwnVectors(p) = {}

\* C4: an accepted submission (new content, a proposed version of 0 or more,
\* handled to its end) stores max(latest_version before, proposed version) on
\* its Visit and in its vector record's metadata, and latest_version becomes
\* that value.
StoredVersionIsMax ==
    \A p \in Workers :
        ( /\ Finished(p) /\ outcome[p] = "ok"
          /\ ~pre[p].duplicate /\ visit_data[p].version >= 0 ) =>
            LET final == MaxOf({pre[p].latest_version, visit_data[p].version})
            IN /\ \A v \in OwnVisits(p) : v.version = final
               /\ \A r \in OwnVectors(p) : r.version = final
               /\ get_latest_version(visit_data[p].url) = final

\* a worker between its read of the Website row of u and its commit
Writing(p, u) ==
    pc[p] \in {"insert", "clean", "visit", "enrich", "commit"} /\ visit_data[p].url = u

\* C5: once every concurrent submission for a URL has committed, and the
\* Visits of the URL have distinct content hashes, the URL's latest_version is
\* the largest version proposed by a committed submission (none was lost).
NoLostVersionAdvance ==
    \A u \in URLs :
        ( /\ \A p \in Workers : ~Writing(p, u)
          /\ \A v1, v2 \in VisitsOf(u) : v1.content_hash = v2.content_hash => v1 = v2 )
        => get_latest_version(u) = MaxOf({0} \cup {proposed[v.id] : v \in VisitsOf(u)})

\* C6: a submission that failed leaves no Visit row and no vector record of
\* its own, and the URL's latest_version as it was before the submission.
FailureIsAllOrNothing ==
    \A p \in Workers :
        (Finished(p) /\ outcome[p] # "ok") =>
            /\ OwnVisits(p) = {}
            /\ OwnVectors(p) = {}
            /\ get_latest_version(visit_data[p].url) = pre[p].latest_version

\* C7: the vector store holds at most one record per (url, version).
OneVectorPerUrlVersion ==
    \A r1, r2 \in vectors :
        (r1.url = r2.url /\ r1.version = r2.version) => r1 = r2

InRange(rows, start, end) == {v \in rows : start <= v.version /\ v.version <= end}

IsAscending(s) == \A i, j \in DOMAIN s : i < j => s[i] <= s[j]

\* C10: the answer of the visit lookup for a URL with bounds [start, end],
\* start <= end, lists exactly the Visits of the URL whose version is in the
\* range, ascending by version.
VisitsAnswerIsRangeAscending ==
    (resp.kind = "visits" /\ resp.start <= resp.end) =>
        /\ IsAscending(resp.versions)
        /\ \A x \in Versions :
               Occurrences(resp.versions, x) =
                   Cardinality({v \in InRange(VisitsOf(resp.url), resp.start, resp.end) :
                                   v.version = x})

\* C11: a submission whose content is empty, once handled to its end, has been
\* rejected: it created no Website record, no Visit and no vector record, and
\* the URL's latest_version is what it was before the submission.
EmptyContentRejected ==
    \A p \in Workers :
        (Finished(p) /\ visit_data[p].content = "") =>
            /\ outcome[p] # "ok"
            /\ website[p].found \/ visit_data[p].url \notin DOMAIN websites
            /\ OwnVisits(p) = {}
            /\ OwnVectors(p) = {}
            /\ get_latest_version(visit_data[p].url) = pre[p].latest_version

\* C12: in every committed state, interleaved submissions included, the
\* version of every Visit row is at most the latest_version of its Website.
VisitVersionAtMostLatest ==
    \A v \in visits : v.version <= get_latest_version(v.url)

\* C13: the browsing history holds one record per url seen and none for a url
\* not seen, and the record's visit_count is the number of recentHistory
\* entries processed for the url.
OneHistoryRecordPerUrl ==
    \A h \in HistoryUrls :
        LET rows == {r \in browsing_history : r.url = h}
        IN IF processed.history[h] = 0
           THEN rows = {}
           ELSE /\ Cardinality(rows) = 1
                /\ \A r \in rows : r.visit_count = processed.history[h]

\* C14: the cookie registry holds at most one Cookie per (name, domain), and
\* for every website a (name, domain) was submitted with there is exactly one
\* link between the website and a Cookie of that (name, domain).
OneCookiePerNameDomain ==
    /\ \A r1, r2 \in cookies :
           (r1.name = r2.name /\ r1.domain = r2.domain) => r1 = r2
    /\ \A s \in processed.cookies :
           Cardinality({l \in website_cookie :
                           /\ l[1] = s[1]
                           /\ \E r \in cookies :
                                  r.id = l[2] /\ r.name = s[2].name
                                              /\ r.domain = s[2].domain}) = 1

\* C15: whatever the interleaving, at most one Website row is ever committed
\* per URL (the URL has a row exactly when one INSERT of it was committed), and
\* a submission whose INSERT was rejected ends with no committed Visit and no
\* vector record.
AtMostOneWebsitePerUrl ==
    /\ \A u \in URLs :
           /\ site_inserts[u] <= 1
           /\ u \in DOMAIN websites <=> site_inserts[u] = 1
    /\ \A p \in Workers :
           (Finished(p) /\ outcome[p] = "conflict") =>
               OwnVisits(p) = {} /\ OwnVectors(p) = {}

\* C15 witness: two submissions for a URL without a Website row both found no
\* row; one committed the Website and its Visit, the other was rejected.
InsertRaceLost ==
    \E p \in Workers : \E q \in Workers \ {p} :
        /\ Finished(p) /\ outcome[p] = "conflict" /\ ~website[p].found
        /\ visit_data[q].url = visit_data[p].url
        /\ OwnVisits(q) # {} /\ VisitsOf(visit_data[p].url) = OwnVisits(q)
        /\ site_inserts[visit_data[p].url] = 1

\* C16: whatever the interleaving, every vector record carries the id of a
\* committed Visit row of the same url, and no committed Visit has more than
\* one vector record.
VectorOnlyOfCommittedVisit ==
    /\ \A r \in vectors : \E v \in visits : v.id = r.id /\ v.url = r.url
    /\ \A v \in visits : Cardinality({r \in vectors : r.id = v.id}) <= 1

\* C16 witness: one submission has committed its Visit and written its vector
\* record while another has its Visit flushed and not yet committed.
VectorWrittenAfterCommit ==
    \E p \in Workers : \E q \in Workers \ {p} :
        /\ Finished(p) /\ outcome[p] = "ok"
        /\ OwnVisits(p) # {} /\ OwnVectors(p) # {}
        /\ pc[q] = "commit" /\ new_visit[q] # NoVisit /\ OwnVisits(q) = {}

\* what the service holds for URL u: its Website row and its Visits
HasWebsite(u) == u \in DOMAIN websites
StateOfUrl(u) == <<HasWebsite(u), get_latest_version(u), VisitsOf(u)>>

\* C17: whatever the interleaving, a step changes the Website row, the
\* latest_version or the Visits of a URL only when it is the commit of a
\* submission for that URL: a submission for one URL leaves every other URL's
\* latest_version and Visits as they were.
OtherUrlsUntouched ==
    [][\A u \in URLs :
          StateOfUrl(u)' # StateOfUrl(u) =>
              \E p \in Workers :
                  /\ visit_data[p].url = u
                  /\ pc[p] = "commit" /\ pc'[p] = "vector"]_vars

\* C17 witness: a submission for one URL has committed while a submission for
\* another URL, which has Visits and a positive latest_version, is in flight.
CommitBesideOtherUrl ==
    \E p \in Workers : \E q \in Workers \ {p} :
        /\ pc[p] = "vector" /\ OwnVisits(p) # {}
        /\ InFlight(q) /\ visit_data[q].url # visit_data[p].url
        /\ VisitsOf(visit_data[q].url) # {}
        /\ get_latest_version(visit_data[q].url) > 0

\* the answer a read gives for a URL without a Website row
EmptyResult(r) ==
    \/ r.kind = "latest_version" /\ r.latest_version = 0
    \/ r.kind = "message"

\* C18: a step in which a read endpoint answers changes no stored row (no
\* Website, Visit, vector record or registry row), and its answer for a URL
\* without a Website row is the empty result: latest_version 0 or a message.
ReadsChangeNothing ==
    [][(resp' # resp /\ resp' # NoResp) =>
          /\ UNCHANGED <<websites, visits, vectors, registry>>
          /\ resp'.url \notin DOMAIN websites' => EmptyResult(resp')]_vars

\* C18 witness: a read for a URL without a Website row has been answered
\* while another URL has a Website row and Visits.
UnknownUrlRead ==
    /\ resp # NoResp
    /\ resp.url \notin DOMAIN websites
    /\ EmptyResult(resp)
    /\ \E u \in URLs : HasWebsite(u) /\ VisitsOf(u) # {}

====
